---- MODULE Spec2Model ----
(***************************************************************************)
(* mac-app-remover: the library (src/src/lib.rs), the command line tool   *)
(* (src/src/main.rs) and the graphical shell (src/src/bin/gui.rs).         *)
(*                                                                         *)
(* A string is spelled out by Spell as the sequence of its characters, on  *)
(* which case folding, substring search and ordering are computed as the   *)
(* code computes them.                                                     *)
(* A path is the sequence of its components, the filesystem is the set of  *)
(* directory paths and the set of file paths that exist.                   *)
(***************************************************************************)
EXTENDS Integers, Sequences, FiniteSets, TLC

----------------------------------------------------------------------------
\* Characters and strings (ASCII letters, space, dot, newline)

UpperChars == <<"A","B","C","D","E","F","G","H","I","J","K","L","M",
                "N","O","P","Q","R","S","T","U","V","W","X","Y","Z">>

LowerChars == <<"a","b","c","d","e","f","g","h","i","j","k","l","m",
                "n","o","p","q","r","s","t","u","v","w","x","y","z">>

\* F(x), with x computed once
With(x, F(_)) == CHOOSE r \in { F(v) : v \in {x} } : TRUE

Range(s) == { s[i] : i \in DOMAIN s }

Chars == Range(UpperChars) \cup Range(LowerChars) \cup {" ", ".", "\n"}

\* the byte value of a character
Ord ==
    [ c \in Chars |->
        IF c \in Range(UpperChars)
          THEN 64 + (CHOOSE i \in DOMAIN UpperChars : UpperChars[i] = c)
        ELSE IF c \in Range(LowerChars)
          THEN 96 + (CHOOSE i \in DOMAIN LowerChars : LowerChars[i] = c)
        ELSE IF c = " " THEN 32
        ELSE IF c = "." THEN 46
        ELSE 10 ]

LowerOf ==
    [ c \in Chars |->
        IF c \in Range(UpperChars)
          THEN LowerChars[CHOOSE i \in DOMAIN UpperChars : UpperChars[i] = c]
          ELSE c ]

\* the strings of the model, each with its characters
Spell ==
    ("" :> <<>>) @@
    (" Y \n" :> <<" ","Y"," ","\n">>) @@
    (".app" :> <<".","a","p","p">>) @@
    (".plist" :> <<".","p","l","i","s","t">>) @@
    ("Application Support" :> <<"A","p","p","l","i","c","a","t","i","o","n"," ","S","u","p","p","o","r","t">>) @@
    ("Applications" :> <<"A","p","p","l","i","c","a","t","i","o","n","s">>) @@
    ("Bar" :> <<"B","a","r">>) @@
    ("Bar.app" :> <<"B","a","r",".","a","p","p">>) @@
    ("Baz" :> <<"B","a","z">>) @@
    ("Caches" :> <<"C","a","c","h","e","s">>) @@
    ("Containers" :> <<"C","o","n","t","a","i","n","e","r","s">>) @@
    ("Contents" :> <<"C","o","n","t","e","n","t","s">>) @@
    ("Cookies" :> <<"C","o","o","k","i","e","s">>) @@
    ("FOO" :> <<"F","O","O">>) @@
    ("FOO.app" :> <<"F","O","O",".","a","p","p">>) @@
    ("Foo" :> <<"F","o","o">>) @@
    ("Foo.APP" :> <<"F","o","o",".","A","P","P">>) @@
    ("Foo.app" :> <<"F","o","o",".","a","p","p">>) @@
    ("Foo.log" :> <<"F","o","o",".","l","o","g">>) @@
    ("Group Containers" :> <<"G","r","o","u","p"," ","C","o","n","t","a","i","n","e","r","s">>) @@
    ("HTTPStorages" :> <<"H","T","T","P","S","t","o","r","a","g","e","s">>) @@
    ("Info.plist" :> <<"I","n","f","o",".","p","l","i","s","t">>) @@
    ("Library" :> <<"L","i","b","r","a","r","y">>) @@
    ("Logs" :> <<"L","o","g","s">>) @@
    ("Nope" :> <<"N","o","p","e">>) @@
    ("Nope.app" :> <<"N","o","p","e",".","a","p","p">>) @@
    ("Preferences" :> <<"P","r","e","f","e","r","e","n","c","e","s">>) @@
    ("Saved Application State" :> <<"S","a","v","e","d"," ","A","p","p","l","i","c","a","t","i","o","n"," ","S","t","a","t","e">>) @@
    ("Sim\n" :> <<"S","i","m","\n">>) @@
    ("Users" :> <<"U","s","e","r","s">>) @@
    ("WebKit" :> <<"W","e","b","K","i","t">>) @@
    ("\n" :> <<"\n">>) @@
    ("a" :> <<"a">>) @@
    ("app" :> <<"a","p","p">>) @@
    ("b" :> <<"b">>) @@
    ("c" :> <<"c">>) @@
    ("c.bar" :> <<"c",".","b","a","r">>) @@
    ("c.bar.plist" :> <<"c",".","b","a","r",".","p","l","i","s","t">>) @@
    ("c.foo" :> <<"c",".","f","o","o">>) @@
    ("c.foo.plist" :> <<"c",".","f","o","o",".","p","l","i","s","t">>) @@
    ("c.foo\n" :> <<"c",".","f","o","o","\n">>) @@
    ("d" :> <<"d">>) @@
    ("data" :> <<"d","a","t","a">>) @@
    ("e" :> <<"e">>) @@
    ("f" :> <<"f">>) @@
    ("fo" :> <<"f","o">>) @@
    ("foo" :> <<"f","o","o">>) @@
    ("foo.app" :> <<"f","o","o",".","a","p","p">>) @@
    ("g" :> <<"g">>) @@
    ("h" :> <<"h">>) @@
    ("i" :> <<"i">>) @@
    ("j" :> <<"j">>) @@
    ("k" :> <<"k">>) @@
    ("l" :> <<"l">>) @@
    ("m" :> <<"m">>) @@
    ("n" :> <<"n">>) @@
    ("n\n" :> <<"n","\n">>) @@
    ("o" :> <<"o">>) @@
    ("p" :> <<"p">>) @@
    ("q" :> <<"q">>) @@
    ("r" :> <<"r">>) @@
    ("s" :> <<"s">>) @@
    ("s\n" :> <<"s","\n">>) @@
    ("sim" :> <<"s","i","m">>) @@
    ("t" :> <<"t">>) @@
    ("u" :> <<"u">>) @@
    ("v" :> <<"v">>) @@
    ("w" :> <<"w">>) @@
    ("x" :> <<"x">>) @@
    ("xfoo" :> <<"x","f","o","o">>) @@
    ("y" :> <<"y">>) @@
    ("yes" :> <<"y","e","s">>) @@
    ("yes\n" :> <<"y","e","s","\n">>) @@
    ("z" :> <<"z">>)

\* the string spelled by the characters t
Unspell == [ t \in { Spell[n] : n \in DOMAIN Spell } |-> CHOOSE n \in DOMAIN Spell : Spell[n] = t ]

Str(t) == Unspell[t]

\* str::to_lowercase, on the characters
to_lowercase(s) == [ i \in DOMAIN s |-> LowerOf[s[i]] ]

IsWhite(c) == c \in {" ", "\n"}

RECURSIVE trim_start(_)
trim_start(s) ==
    IF s # <<>> /\ IsWhite(s[1]) THEN trim_start(Tail(s)) ELSE s

RECURSIVE trim_end(_)
trim_end(s) ==
    IF s # <<>> /\ IsWhite(s[Len(s)])
      THEN trim_end(SubSeq(s, 1, Len(s) - 1))
      ELSE s

\* str::trim
trim(s) == trim_end(trim_start(s))

\* str::contains: the empty needle is contained in every string
contains(hay, needle) ==
    \E i \in 0..(Len(hay) - Len(needle)) :
        SubSeq(hay, i + 1, i + Len(needle)) = needle

\* str::ends_with
ends_with(s, suffix) ==
    /\ Len(suffix) <= Len(s)
    /\ SubSeq(s, Len(s) - Len(suffix) + 1, Len(s)) = suffix

\* byte-wise lexicographic order on strings (Ord for str / OsStr)
RECURSIVE StrLess(_, _)
StrLess(a, b) ==
    IF b = <<>> THEN FALSE
    ELSE IF a = <<>> THEN TRUE
    ELSE IF Ord[a[1]] # Ord[b[1]] THEN Ord[a[1]] < Ord[b[1]]
    ELSE StrLess(Tail(a), Tail(b))

\* Ord for Path: component by component
RECURSIVE PathLess(_, _)
PathLess(p, q) ==
    IF q = <<>> THEN FALSE
    ELSE IF p = <<>> THEN TRUE
    ELSE IF p[1] # q[1] THEN StrLess(Spell[p[1]], Spell[q[1]])
    ELSE PathLess(Tail(p), Tail(q))

\* Vec<PathBuf>::sort: stable, ascending by Ord for Path
RECURSIVE InsertPath(_, _)
InsertPath(sorted, x) ==
    IF sorted = <<>> THEN <<x>>
    ELSE IF PathLess(x, sorted[1]) THEN <<x>> \o sorted
    ELSE <<sorted[1]>> \o InsertPath(Tail(sorted), x)

RECURSIVE SortPaths(_)
SortPaths(s) ==
    IF s = <<>> THEN <<>>
    ELSE InsertPath(SortPaths(SubSeq(s, 1, Len(s) - 1)), s[Len(s)])

\* Vec::dedup: consecutive equal elements collapse to the first
RECURSIVE dedup(_)
dedup(s) ==
    IF Len(s) <= 1 THEN s
    ELSE IF s[1] = s[2] THEN dedup(Tail(s))
    ELSE <<s[1]>> \o dedup(Tail(s))

\* all orderings of a finite set: the orders a directory listing may come in
RECURSIVE Perms(_)
Perms(S) ==
    IF S = {} THEN { <<>> }
    ELSE UNION { { <<x>> \o p : p \in Perms(S \ {x}) } : x \in S }

----------------------------------------------------------------------------
\* Option<T> and io::Result<T>: <<>> is None / Err, <<x>> is Some(x) / Ok(x)

None == <<>>

Some(x) == <<x>>

unwrap_or(r, d) == IF r = <<>> THEN d ELSE r[1]

----------------------------------------------------------------------------
\* Names of the program

sUsers == "Users"

sUser == "u"

sLibrary == "Library"

sApplications == "Applications"

sDotApp == ".app"

sDotPlist == ".plist"

sContents == "Contents"

sInfoPlist == "Info.plist"

sPreferences == "Preferences"

\* get_home: $HOME
get_home == <<sUsers, sUser>>

\* the ten directories find_related_files searches, in the order it searches
RelatedDirNames ==
    << "Application Support",
       "Caches",
       "Preferences",
       "Logs",
       "Containers",
       "Group Containers",
       "Saved Application State",
       "WebKit",
       "HTTPStorages",
       "Cookies" >>

RelatedSearchDirs ==
    [ i \in DOMAIN RelatedDirNames |-> get_home \o <<sLibrary, RelatedDirNames[i]>> ]

\* the two application roots, the system root first
AppSearchDirs == << <<sApplications>>, get_home \o <<sApplications>> >>

\* Path::join, Path::file_name
join(dir, name) == dir \o <<name>>

file_name(p) == p[Len(p)]

\* Path::file_stem: the file name up to its last dot (the whole name when it
\* has no dot, or only a leading one)
file_stem(p) ==
    LET n == Spell[file_name(p)]
        dots == { i \in DOMAIN n : n[i] = "." /\ i > 1 }
    IN  IF dots = {} THEN file_name(p)
        ELSE Str(SubSeq(n, 1, (CHOOSE i \in dots : \A j \in dots : j <= i) - 1))

\* Path::extension: the characters after the last dot, None without one
extension(p) ==
    LET n == Spell[file_name(p)]
        dots == { i \in DOMAIN n : n[i] = "." /\ i > 1 }
    IN  IF dots = {} THEN None
        ELSE Some(SubSeq(n, (CHOOSE i \in dots : \A j \in dots : j <= i) + 1, Len(n)))

IsPrefix(p, q) == Len(p) <= Len(q) /\ SubSeq(q, 1, Len(p)) = p

----------------------------------------------------------------------------
VARIABLES
    fsDirs,        \* the directories that exist
    fsFiles,       \* the files that exist
    fsSize,        \* file -> its length in bytes
    fsNoStat,      \* entries whose metadata cannot be read
    fsNoRead,      \* directories that cannot be listed
    fsFoldsCase,   \* the volume looks names up without regard to case
    plistIds,      \* bundle -> what `defaults read ... CFBundleIdentifier` prints
    runningApps    \* names pgrep finds running

fsVars == <<fsDirs, fsFiles, fsSize, fsNoStat, fsNoRead, fsFoldsCase, plistIds,
            runningApps>>

\* a path with every component in lower case
FoldPath(p) == [ i \in DOMAIN p |-> to_lowercase(Spell[p[i]]) ]

\* the entry a path names: the entry of that very name, or on a volume that
\* folds case the entry whose name differs from it by case only
Resolve(p) ==
    IF ~fsFoldsCase \/ p \in fsDirs \cup fsFiles THEN p
    ELSE LET same == { q \in fsDirs \cup fsFiles : FoldPath(q) = FoldPath(p) }
         IN  IF same = {} THEN p ELSE CHOOSE q \in same : TRUE

\* Path::exists, Path::is_dir, Path::is_file
exists(p) == Resolve(p) \in fsDirs \cup fsFiles

is_dir(p) == Resolve(p) \in fsDirs /\ Resolve(p) \notin fsNoStat

is_file(p) == Resolve(p) \in fsFiles /\ Resolve(p) \notin fsNoStat

Children(dir) ==
    { p \in fsDirs \cup fsFiles : Len(p) = Len(dir) + 1 /\ IsPrefix(dir, p) }

Subtree(p) == { q \in fsDirs \cup fsFiles : IsPrefix(p, q) }

\* fs::read_dir(dir): Err, or the entries of dir in the order `ord` lists them
\* (ord is one ordering of the entries of the filesystem)
read_dir(dir, ord) ==
    IF dir \notin fsDirs \/ dir \in fsNoRead \/ dir \in fsNoStat THEN None
    ELSE Some(SelectSeq(ord, LAMBDA p : exists(p) /\ Len(p) = Len(dir) + 1 /\ IsPrefix(dir, p)))

\* the orders the listings of a sequence of directories may come in: each
\* directory lists its own entries in any order
RECURSIVE Listings(_)
Listings(dirs) ==
    IF dirs = <<>> THEN { <<>> }
    ELSE { a \o b : a \in Perms(Children(Head(dirs))), b \in Listings(Tail(dirs)) }

\* one listing order of a set of entries
RECURSIVE SeqOfSet(_)
SeqOfSet(S) ==
    IF S = {} THEN <<>>
    ELSE LET x == CHOOSE x \in S : TRUE IN <<x>> \o SeqOfSet(S \ {x})

----------------------------------------------------------------------------
\* lib.rs: find_related_files

\* the search terms: the name, then the bundle id when there is one
search_terms(app_name, bundle_id) == <<app_name>> \o bundle_id

\* a test that tells upper case from lower case
EntryMatchesCaseSensitive(entry_name, term) ==
    \/ entry_name = term
    \/ contains(Spell[entry_name], Spell[term])

\* the test of one entry name against one term
EntryMatches(entry_name, term) ==
    \/ entry_name = term
    \/ to_lowercase(Spell[entry_name]) = to_lowercase(Spell[term])
    \/ contains(Spell[entry_name], Spell[term])
    \/ contains(to_lowercase(Spell[entry_name]), to_lowercase(Spell[term]))

\* the entries one search directory contributes, in listing order
ScanDir(dir, terms, ord) ==
    IF ~exists(dir) THEN <<>>
    ELSE LET r == read_dir(dir, ord)
         IN  IF r = None THEN <<>>
             ELSE SelectSeq(r[1],
                    LAMBDA p : \E i \in DOMAIN terms :
                                  EntryMatches(file_name(p), terms[i]))

RECURSIVE ScanDirs(_, _, _)
ScanDirs(i, terms, ord) ==
    IF i > Len(RelatedSearchDirs) THEN <<>>
    ELSE ScanDir(RelatedSearchDirs[i], terms, ord) \o ScanDirs(i + 1, terms, ord)

\* `found` after the scan and the probe for <id>.plist, before it is sorted
RelatedFound(app_name, bundle_id, ord) ==
    LET found == ScanDirs(1, search_terms(app_name, bundle_id), ord)
        pref_dir == get_home \o <<sLibrary, sPreferences>>
    IN  IF bundle_id = None THEN found
        ELSE LET plist_file == join(pref_dir, Str(Spell[bundle_id[1]] \o Spell[sDotPlist]))
             IN  IF exists(plist_file) /\ plist_file \notin Range(found)
                   THEN Append(found, plist_file)
                   ELSE found

\* find_related_files without `found.sort()`
find_related_files_unsorted(app_name, bundle_id, ord) ==
    dedup(RelatedFound(app_name, bundle_id, ord))

find_related_files(app_name, bundle_id, ord) ==
    dedup(SortPaths(RelatedFound(app_name, bundle_id, ord)))

----------------------------------------------------------------------------
\* lib.rs: dir_size.  The sum does not depend on the order of the listing and
\* an error ends the loop whichever entry raises it, so one order is computed.

RECURSIVE dir_size(_)
RECURSIVE dir_size_loop(_, _)
dir_size_loop(entries, total) ==
    IF entries = <<>> THEN Some(total)
    ELSE LET e == Head(entries)
         IN  IF e \in fsNoStat THEN None                  \* entry.metadata()?
             ELSE IF e \in fsDirs
               THEN dir_size_loop(Tail(entries), total + unwrap_or(dir_size(e), 0))
               ELSE dir_size_loop(Tail(entries), total + fsSize[e])

dir_size(path) ==
    IF is_file(path) THEN Some(fsSize[path])
    ELSE With(read_dir(path, SeqOfSet(Children(path))),
              LAMBDA r : IF r = None THEN None ELSE dir_size_loop(r[1], 0))

\* the size the callers show for a residual path
shown_size(path) ==
    IF is_dir(path) THEN unwrap_or(dir_size(path), 0)
    ELSE IF path \in fsFiles /\ path \notin fsNoStat THEN fsSize[path] ELSE 0

----------------------------------------------------------------------------
\* lib.rs: find_app, get_bundle_id, get_installed_apps, is_app_running

app_filename(name) ==
    IF ends_with(Spell[name], Spell[sDotApp]) THEN name
    ELSE Str(Spell[name] \o Spell[sDotApp])

\* the case-insensitive pass over one root
ScanRoot(dir, name_lower, ord) ==
    LET r == read_dir(dir, ord)
    IN  IF r = None THEN <<>>
        ELSE SelectSeq(r[1], LAMBDA p : to_lowercase(Spell[file_name(p)]) = name_lower)

find_app(name, ord) ==
    LET fname == app_filename(name)
        exact == SelectSeq(AppSearchDirs, LAMBDA d : exists(join(d, fname)))
        ci    == ScanRoot(AppSearchDirs[1], to_lowercase(Spell[fname]), ord)
                   \o ScanRoot(AppSearchDirs[2], to_lowercase(Spell[fname]), ord)
    IN  IF exact # <<>> THEN Some(join(exact[1], fname))
        ELSE IF ci # <<>> THEN Some(ci[1])
        ELSE None

get_bundle_id(app_path) ==
    IF join(join(app_path, sContents), sInfoPlist) \notin fsFiles THEN None
    ELSE IF app_path \notin DOMAIN plistIds THEN None
    ELSE Some(Str(trim(Spell[plistIds[app_path]])))

\* the sort key of get_installed_apps
StemKey(p) == to_lowercase(Spell[file_stem(p)])

\* a sort that is not stable: an element goes before the elements of equal key
RECURSIVE InsertAppBeforeEqual(_, _)
InsertAppBeforeEqual(sorted, x) ==
    IF sorted = <<>> THEN <<x>>
    ELSE IF ~StrLess(StemKey(sorted[1]), StemKey(x)) THEN <<x>> \o sorted
    ELSE <<sorted[1]>> \o InsertAppBeforeEqual(Tail(sorted), x)

\* Vec::sort_by on the keys: stable, an element goes after the elements of
\* equal key that precede it
RECURSIVE InsertApp(_, _)
InsertApp(sorted, x) ==
    IF sorted = <<>> THEN <<x>>
    ELSE IF StrLess(StemKey(x), StemKey(sorted[1])) THEN <<x>> \o sorted
    ELSE <<sorted[1]>> \o InsertApp(Tail(sorted), x)

RECURSIVE SortApps(_)
SortApps(s) ==
    IF s = <<>> THEN <<>>
    ELSE With(SortApps(SubSeq(s, 1, Len(s) - 1)),
              LAMBDA sorted : InsertApp(sorted, s[Len(s)]))

BundlesOf(dir, ord) ==
    LET r == read_dir(dir, ord)
    IN  IF r = None THEN <<>>
        ELSE SelectSeq(r[1], LAMBDA p : extension(p) = Some(Spell["app"]))

get_installed_apps(ord) ==
    With(BundlesOf(AppSearchDirs[1], ord) \o BundlesOf(AppSearchDirs[2], ord),
         LAMBDA apps_found : SortApps(apps_found))

\* lib.rs, lines 47-60: the AppInfo of one bundle
AppInfoOf(path) ==
    [ name      |-> file_stem(path),
      path      |-> path,
      size      |-> unwrap_or(dir_size(path), 0),
      bundle_id |-> get_bundle_id(path) ]

get_installed_app_infos(ord) ==
    With(get_installed_apps(ord),
         LAMBDA paths : [ i \in DOMAIN paths |-> With(paths[i], LAMBDA p : AppInfoOf(p)) ])

is_app_running(app_name) == app_name \in runningApps

----------------------------------------------------------------------------
VARIABLES
    mode,             \* which program runs: "cli", "gui", or one library call
    fnArgs,           \* the arguments of the library call a run makes
    fnOut,            \* the results of its successive calls
    \* main.rs, remove_app
    cliPc,            \* where remove_app is
    cliArg,           \* app_name, the command line argument
    cliAppPath,       \* app_path
    cliBundleId,      \* bundle_id
    cliRelated,       \* related
    cliIdx,           \* how many of `related` the deletion loop has done
    cliErrors,        \* errors
    cliOut,           \* what was printed, stdout and stderr in order
    \* gui.rs, struct App
    apps,
    search_query,
    selected_index,
    selected_details,
    log_messages,
    log_rx,           \* None, or Some(the worker whose channel it receives)
    removing,
    show_confirm,
    \* gui.rs, the frame loop, the channel and the worker threads
    chan,             \* the messages sent and not yet received
    workers,          \* worker -> its position and captured values
    \* the calls made on the system, in order
    calls,            \* [by, op, arg, ok]: is_app_running, quit_app, sleep, remove_path
    confirmed,        \* removal -> the path set on display when the user confirmed it
    selectionAge      \* of selected_details: "none" when there are none, "fresh"
                      \* when they were computed while no removal ran and none
                      \* has started since, "stale" otherwise

fnVars == <<mode, fnArgs, fnOut>>

cliVars == <<cliPc, cliArg, cliAppPath, cliBundleId, cliRelated, cliIdx,
             cliErrors, cliOut>>

appVars == <<apps, search_query, selected_index, selected_details,
             log_messages, log_rx, removing, show_confirm>>

guiVars == <<appVars, chan, workers>>

callVars == <<calls, confirmed, selectionAge>>

vars == <<fsVars, fnVars, cliVars, guiVars, callVars>>

\* the states of the parts a run does not use
CliUnused ==
    /\ cliPc = "off"
    /\ cliArg = ""
    /\ cliAppPath = None
    /\ cliBundleId = None
    /\ cliRelated = <<>>
    /\ cliIdx = 0
    /\ cliErrors = <<>>
    /\ cliOut = <<>>

GuiUnused ==
    /\ apps = <<>>
    /\ search_query = ""
    /\ selected_index = None
    /\ selected_details = None
    /\ log_messages = <<>>
    /\ log_rx = None
    /\ removing = FALSE
    /\ show_confirm = FALSE
    /\ chan = <<>>
    /\ workers = <<>>

CallsNone ==
    /\ calls = <<>>
    /\ confirmed = <<>>
    /\ selectionAge = "none"

----------------------------------------------------------------------------
\* dir_size on the trees of at most MaxNodes entries under one root

MaxNodes == 3

SizeRoot == <<"r">>

RECURSIVE NodePath(_, _)
NodePath(i, parent) ==
    IF i = 0 THEN SizeRoot
    ELSE join(NodePath(parent[i], parent), LowerChars[i])

\* entry i is 2^i bytes long, so that a sum tells which entries it counts
RECURSIVE Pow2(_)
Pow2(i) == IF i = 0 THEN 1 ELSE 2 * Pow2(i - 1)

NodeIndex(p) ==
    IF p = SizeRoot THEN 0
    ELSE CHOOSE i \in DOMAIN LowerChars : LowerChars[i] = file_name(p)

InitDirSize ==
    /\ mode = "dir_size"
    /\ \E n \in 0..MaxNodes :
       \E parent \in [1..n -> 0..MaxNodes] :
         /\ \A i \in 1..n : parent[i] < i
         /\ \E kind \in [0..n -> {"file", "dir"}] :
              /\ \A i \in 1..n : kind[parent[i]] = "dir"
              /\ \E fault \in [0..n -> {"ok", "nostat", "noread"}] :
                   /\ \A i \in 0..n : fault[i] = "noread" => kind[i] = "dir"
                   /\ fsDirs = { NodePath(i, parent) : i \in { j \in 0..n : kind[j] = "dir" } }
                   /\ fsFiles = { NodePath(i, parent) : i \in { j \in 0..n : kind[j] = "file" } }
                   /\ fsSize = [ p \in { NodePath(i, parent) : i \in { j \in 0..n : kind[j] = "file" } }
                                   |-> Pow2(NodeIndex(p)) ]
                   /\ fsNoStat = { NodePath(i, parent) : i \in { j \in 0..n : fault[j] = "nostat" } }
                   /\ fsNoRead = { NodePath(i, parent) : i \in { j \in 0..n : fault[j] = "noread" } }
    /\ fsFoldsCase = FALSE
    /\ plistIds = <<>>
    /\ runningApps = {}
    /\ fnArgs = [path |-> SizeRoot]
    /\ fnOut = <<>>
    /\ CliUnused /\ GuiUnused /\ CallsNone

DirSizeCall ==
    /\ mode = "dir_size"
    /\ fnOut = <<>>
    /\ fnOut' = <<dir_size(fnArgs.path)>>
    /\ UNCHANGED <<fsVars, mode, fnArgs, cliVars, guiVars, callVars>>

SpecDirSize == InitDirSize /\ [][DirSizeCall]_vars

\* the sum of the lengths of the entries under dir that can be read: an entry
\* whose metadata fails, and a directory that cannot be listed, count zero
RECURSIVE ReadableSum(_)
RECURSIVE ReadableSumOver(_)
ReadableSumOver(S) ==
    IF S = {} THEN 0
    ELSE LET e == CHOOSE e \in S : TRUE
             own == IF e \in fsNoStat THEN 0
                    ELSE IF e \in fsFiles THEN fsSize[e]
                    ELSE IF e \in fsNoRead THEN 0
                    ELSE ReadableSum(e)
         IN  own + ReadableSumOver(S \ {e})

ReadableSum(dir) == ReadableSumOver(Children(dir))

RootReadable(p) == p \in fsDirs /\ p \notin fsNoRead /\ p \notin fsNoStat

\* C9: dir_size of a root directory that can be read is never an error: it
\* is Ok(the sum of the sizes of the readable entries at any depth), every
\* child that cannot be read or stat'd counting zero.
C9_UnreadableChildrenCountZero ==
    (mode = "dir_size" /\ fnOut # <<>> /\ RootReadable(fnArgs.path))
        => fnOut[1] = Some(ReadableSum(fnArgs.path))

----------------------------------------------------------------------------
\* find_related_files on the filesystems that hold at most MaxRelEntries
\* entries in the ten search directories

MaxRelEntries == 2

\* the entries are drawn in the first RelDirsUsed of the search directories
\* (Preferences is the third; Logs, the fourth, sorts before it)
RelDirsUsed == 4

sFoo == "Foo"

sBarId == "c.bar"

\* entry names: equal to the name, containing it in another case, the
\* preferences file of the id, and one that matches nothing
RelEntryNames ==
    { sFoo, "xfoo", "c.bar.plist", "Baz" }

RelPairs ==
    { join(RelatedSearchDirs[i], n) :
        i \in { j \in DOMAIN RelatedSearchDirs : j <= RelDirsUsed }, n \in RelEntryNames }

LibraryParents == { <<sUsers>>, get_home, get_home \o <<sLibrary>> }

IsPlistName(n) == ends_with(Spell[n], Spell[sDotPlist])

InitRelated ==
    /\ mode = "related"
    /\ \E f \in [1..MaxRelEntries -> RelPairs \cup {<<>>}] :
       \E allExist \in BOOLEAN :
         LET entries == Range(f) \ {<<>>}
             holding == { SubSeq(p, 1, Len(p) - 1) : p \in entries }
         IN  /\ fsDirs = LibraryParents
                           \cup (IF allExist THEN Range(RelatedSearchDirs) ELSE holding)
                           \cup { p \in entries : ~IsPlistName(file_name(p)) }
             /\ fsFiles = { p \in entries : IsPlistName(file_name(p)) }
             /\ fsSize = [ p \in { q \in entries : IsPlistName(file_name(q)) } |-> 1 ]
    /\ fsNoStat = {}
    /\ fsNoRead \in { {}, {RelatedSearchDirs[3]} \cap fsDirs }   \* Preferences, not listable
    /\ fsFoldsCase = FALSE
    /\ plistIds = <<>>
    /\ runningApps = {}
    /\ \E name \in {sFoo, ""} : \E id \in {None, Some(sBarId)} :
          fnArgs = [app_name |-> name, bundle_id |-> id]
    /\ fnOut = <<>>
    /\ CliUnused /\ GuiUnused /\ CallsNone

\* one more call of find_related_files on the unchanged filesystem, the
\* directories listing their entries in any order
FindRelatedCall ==
    /\ mode = "related"
    /\ Len(fnOut) < 2
    /\ \E ord \in Listings(RelatedSearchDirs) :
          fnOut' = Append(fnOut,
                     find_related_files(fnArgs.app_name, fnArgs.bundle_id, ord))
    /\ UNCHANGED <<fsVars, mode, fnArgs, cliVars, guiVars, callVars>>

SpecRelated == InitRelated /\ [][FindRelatedCall]_vars

StrictlyAscending(s) == \A k \in 1..(Len(s) - 1) : PathLess(s[k], s[k + 1])

\* C10: two calls of find_related_files with the same name and id on an
\* unchanged filesystem return the same sequence whatever order the
\* directories list their entries in, and the sequence is strictly ascending
\* by path (sorted, no path twice).
C10_RelatedDeterministicSorted ==
    mode = "related" =>
        /\ \A i, j \in DOMAIN fnOut : fnOut[i] = fnOut[j]
        /\ \A i \in DOMAIN fnOut : StrictlyAscending(fnOut[i])

\* two calls were made, several paths were found, and some listing order
\* leaves `found` in another order than the one returned
C10_Witness ==
    /\ mode = "related"
    /\ Len(fnOut) = 2
    /\ Len(fnOut[1]) >= 2
    /\ \E ord \in Listings(RelatedSearchDirs) :
          RelatedFound(fnArgs.app_name, fnArgs.bundle_id, ord) # fnOut[1]

\* x occurs in h: some position of h starts a copy of x
Occurs(h, x) ==
    \E k \in 1..(Len(h) + 1) :
        /\ k + Len(x) - 1 <= Len(h)
        /\ \A j \in 1..Len(x) : h[k + j - 1] = x[j]

\* the four ways an entry name n may match a term t
NameMatches(n, t) ==
    \/ n = t
    \/ to_lowercase(Spell[n]) = to_lowercase(Spell[t])
    \/ Occurs(Spell[n], Spell[t])
    \/ Occurs(to_lowercase(Spell[n]), to_lowercase(Spell[t]))

\* the direct entries of the search directories that exist
SearchedEntries ==
    { p \in fsDirs \cup fsFiles :
        \E i \in DOMAIN RelatedSearchDirs :
            /\ RelatedSearchDirs[i] \in fsDirs
            /\ Len(p) = Len(RelatedSearchDirs[i]) + 1
            /\ SubSeq(p, 1, Len(p) - 1) = RelatedSearchDirs[i] }

\* <id>.plist in Library/Preferences
PlistOf(id) == get_home \o <<sLibrary, sPreferences, Str(Spell[id] \o Spell[sDotPlist])>>

\* those of them whose directory can be listed
ListedEntries == { p \in SearchedEntries : SubSeq(p, 1, Len(p) - 1) \notin fsNoRead }

\* the entries among `entries` that match the name or the id, and <id>.plist
\* of Preferences when it exists
MatchesAndPlist(entries, name, id) ==
    { p \in entries :
        \E term \in {name} \cup Range(id) : NameMatches(file_name(p), term) }
      \cup (IF id # None /\ PlistOf(id[1]) \in fsDirs \cup fsFiles
              THEN {PlistOf(id[1])} ELSE {})

\* with an id whose plist exists and no other entry among `entries` matching,
\* the result is that file alone
PlistAlone(entries, out) ==
    ( /\ fnArgs.bundle_id # None
      /\ exists(PlistOf(sBarId))
      /\ \A p \in entries \ {PlistOf(sBarId)} :
            \A term \in {fnArgs.app_name, sBarId} : ~NameMatches(file_name(p), term) )
    => out = <<PlistOf(sBarId)>>

\* C11 (as stated): find_related_files returns exactly the direct entries
\* of the existing search directories whose name matches the name or the id
\* (equal, equal but for case, containing it, containing it but for case)
\* and the file <id>.plist of Preferences when it exists, and nothing else;
\* an empty name matches every entry of every search directory, and an id
\* whose plist exists with no other entry matching gives that file alone.
C11_RelatedIsExactlyTheMatches ==
    mode = "related" =>
      \A k \in DOMAIN fnOut :
        /\ Range(fnOut[k]) = MatchesAndPlist(SearchedEntries, fnArgs.app_name, fnArgs.bundle_id)
        /\ fnArgs.app_name = "" => Range(fnOut[k]) = SearchedEntries
        /\ PlistAlone(SearchedEntries, fnOut[k])

\* C11 (amended): the same of the search directories that exist and can be
\* listed; a search directory whose listing fails gives no entry, and the
\* file <id>.plist is returned when it exists even if Preferences cannot be
\* listed.
C11_RelatedIsExactlyTheListedMatches ==
    mode = "related" =>
      \A k \in DOMAIN fnOut :
        /\ Range(fnOut[k]) = MatchesAndPlist(ListedEntries, fnArgs.app_name, fnArgs.bundle_id)
        /\ fnArgs.app_name = ""
             => Range(fnOut[k]) = ListedEntries \cup
                                    (IF fnArgs.bundle_id # None /\ exists(PlistOf(sBarId))
                                       THEN {PlistOf(sBarId)} ELSE {})
        /\ PlistAlone(ListedEntries, fnOut[k])

\* Preferences cannot be listed and holds an entry that matches the name:
\* a call has returned the plist of the id, found by its path, and no more
C11_Witness ==
    /\ mode = "related"
    /\ fnOut # <<>>
    /\ fnArgs.app_name = sFoo
    /\ fnOut[1] = <<PlistOf(sBarId)>>
    /\ \E p \in SearchedEntries \ ListedEntries : NameMatches(file_name(p), sFoo)

----------------------------------------------------------------------------
\* get_installed_apps on the application roots that hold at most
\* MaxAppEntries entries

MaxAppEntries == 2

\* the names an entry of a root may have: bundles whose stems differ by case
\* only, a bundle of another stem, a name that is the suffix alone, a name
\* whose suffix is in capitals, and a name without suffix
AppEntryNames == {"Foo.app", "foo.app", "Bar.app", ".app", "Foo.APP", "Baz"}

AppPairs == { join(AppSearchDirs[i], n) : i \in {1, 2}, n \in AppEntryNames }

HomeParents == { SubSeq(get_home, 1, k) : k \in 1..Len(get_home) }

\* the roots hold `entries`; a root that holds none exists when allExist
RootsHold(entries, allExist) ==
    /\ fsDirs = HomeParents
                  \cup (IF allExist THEN Range(AppSearchDirs)
                        ELSE { SubSeq(p, 1, Len(p) - 1) : p \in entries })
                  \cup entries
    /\ fsFiles = {}
    /\ fsSize = <<>>
    /\ fsNoStat = {}
    /\ fsNoRead \in { {} } \cup { {d} \cap fsDirs : d \in Range(AppSearchDirs) }
    /\ plistIds = <<>>
    /\ runningApps = {}

InitInstalled ==
    /\ mode = "apps"
    /\ \E f \in [1..MaxAppEntries -> AppPairs \cup {<<>>}] :
       \E allExist \in BOOLEAN :
          RootsHold(Range(f) \ {<<>>}, allExist)
    /\ fsFoldsCase = FALSE
    /\ fnArgs = <<>>
    /\ fnOut = <<>>
    /\ CliUnused /\ GuiUnused /\ CallsNone

\* one call of get_installed_apps, the roots listing their entries in any
\* order; the order is kept with the result
InstalledAppsCall ==
    /\ mode = "apps"
    /\ fnOut = <<>>
    /\ \E ord \in Listings(AppSearchDirs) :
          fnOut' = << [ord |-> ord, apps |-> get_installed_apps(ord)] >>
    /\ UNCHANGED <<fsVars, mode, fnArgs, cliVars, guiVars, callVars>>

SpecInstalled == InitInstalled /\ [][InstalledAppsCall]_vars

\* a bundle name: a stem that is not empty, followed by ".app" in lower case
IsBundleName(n) ==
    /\ Len(Spell[n]) > Len(Spell[sDotApp])
    /\ SubSeq(Spell[n], Len(Spell[n]) - 3, Len(Spell[n])) = <<".", "a", "p", "p">>

\* the roots that exist and can be listed
ListedRoots == { d \in Range(AppSearchDirs) : d \in fsDirs /\ d \notin fsNoRead }

PresentBundles ==
    { p \in fsDirs \cup fsFiles :
        /\ Len(p) >= 2
        /\ SubSeq(p, 1, Len(p) - 1) \in ListedRoots
        /\ IsBundleName(file_name(p)) }

\* the stem of a bundle, in lower case
LowerStem(p) ==
    to_lowercase(SubSeq(Spell[file_name(p)], 1, Len(Spell[file_name(p)]) - 4))

PosIn(seq, x) == CHOOSE i \in DOMAIN seq : seq[i] = x

InSystemRoot(p) == SubSeq(p, 1, Len(p) - 1) = AppSearchDirs[1]

\* C12: whatever the two roots hold, get_installed_apps returns each bundle
\* of the roots that exist and can be listed exactly once and nothing else,
\* in ascending order of the lower-cased stem, the bundles of equal key in
\* the order they were enumerated (the system root before the user's root);
\* a root that is missing or cannot be listed contributes nothing and the
\* call still returns.
C12_InstalledAppsSortedOncePerBundle ==
    (mode = "apps" /\ fnOut # <<>>) =>
        LET out == fnOut[1].apps
            ord == fnOut[1].ord
        IN  /\ Range(out) = PresentBundles
            /\ Len(out) = Cardinality(PresentBundles)
            /\ \A i, j \in DOMAIN out :
                  i < j =>
                    /\ ~StrLess(LowerStem(out[j]), LowerStem(out[i]))
                    /\ LowerStem(out[i]) = LowerStem(out[j]) =>
                          /\ PosIn(ord, out[i]) < PosIn(ord, out[j])
                          /\ InSystemRoot(out[j]) => InSystemRoot(out[i])

\* two bundles of equal key, one in each root, returned system root first
\* although the byte order of their names is the other way round
C12_Witness ==
    /\ mode = "apps"
    /\ fnOut # <<>>
    /\ Len(fnOut[1].apps) = 2
    /\ LowerStem(fnOut[1].apps[1]) = LowerStem(fnOut[1].apps[2])
    /\ InSystemRoot(fnOut[1].apps[1])
    /\ ~InSystemRoot(fnOut[1].apps[2])
    /\ StrLess(Spell[file_name(fnOut[1].apps[2])], Spell[file_name(fnOut[1].apps[1])])

----------------------------------------------------------------------------
\* find_app on the same application roots, on a volume that tells names
\* apart by case and on one that does not (the default on macOS)

\* the names asked for: case variants of one name, with and without suffix
FindNames == {"Foo", "foo", "FOO", "Foo.app", "foo.app"}

\* a volume that folds case holds no two names that differ by case only
NoCaseTwins(entries) ==
    \A p, q \in entries : FoldPath(p) = FoldPath(q) => p = q

InitFindApp ==
    /\ mode = "find_app"
    /\ \E f \in [1..MaxAppEntries -> AppPairs \cup {<<>>}] :
       \E allExist \in BOOLEAN :
          /\ RootsHold(Range(f) \ {<<>>}, allExist)
          /\ fsFoldsCase \in { b \in BOOLEAN : b => NoCaseTwins(Range(f) \ {<<>>}) }
    /\ fnArgs = <<>>
    /\ fnOut = <<>>
    /\ CliUnused /\ GuiUnused /\ CallsNone

\* one more call of find_app on the unchanged roots, for any of the names,
\* the roots listing their entries in any order
FindAppCall ==
    /\ mode = "find_app"
    /\ Len(fnOut) < 2
    /\ \E name \in FindNames : \E ord \in Listings(AppSearchDirs) :
          fnOut' = Append(fnOut, [name |-> name, found |-> find_app(name, ord)])
    /\ UNCHANGED <<fsVars, mode, fnArgs, cliVars, guiVars, callVars>>

SpecFindApp == InitFindApp /\ [][FindAppCall]_vars

\* a name with the bundle suffix, in lower case
LowerBundleName(name) ==
    to_lowercase(IF ends_with(Spell[name], Spell[sDotApp]) THEN Spell[name]
                 ELSE Spell[name] \o Spell[sDotApp])

\* the entries of the two roots that match a name without regard to case
MatchingEntries(name) ==
    { p \in fsDirs \cup fsFiles :
        /\ Len(p) >= 2
        /\ SubSeq(p, 1, Len(p) - 1) \in Range(AppSearchDirs)
        /\ to_lowercase(Spell[file_name(p)]) = LowerBundleName(name) }

\* C13: when exactly one entry of the two roots matches a name without
\* regard to case, find_app returns the path of that entry for the name and
\* for every case variant of it, with or without ".app": the exact pass and
\* the case-insensitive scan return the same path.
C13_SamePathForEveryCase ==
    mode = "find_app" =>
        /\ \A i \in DOMAIN fnOut :
              Cardinality(MatchingEntries(fnOut[i].name)) = 1 =>
                 fnOut[i].found = Some(CHOOSE p \in MatchingEntries(fnOut[i].name) : TRUE)
        /\ \A i, j \in DOMAIN fnOut :
              (/\ Cardinality(MatchingEntries(fnOut[i].name)) = 1
               /\ LowerBundleName(fnOut[i].name) = LowerBundleName(fnOut[j].name))
                 => fnOut[i].found = fnOut[j].found

\* where the volume tells names apart by case and both roots can be listed,
\* the two passes do agree
C13_SamePathOnCaseSensitiveListedRoots ==
    (mode = "find_app" /\ ~fsFoldsCase /\ fsNoRead = {}) =>
        \A i \in DOMAIN fnOut :
            Cardinality(MatchingEntries(fnOut[i].name)) = 1 =>
               fnOut[i].found = Some(CHOOSE p \in MatchingEntries(fnOut[i].name) : TRUE)

\* on a volume that folds case, the one bundle Foo.app is found under two
\* different paths by "Foo" and by "foo"
C13_TwoPathsForOneBundle ==
    /\ mode = "find_app"
    /\ fsFoldsCase
    /\ fsNoRead = {}
    /\ Len(fnOut) = 2
    /\ fnOut[1].name = "Foo"
    /\ fnOut[2].name = "foo"
    /\ MatchingEntries("Foo") = { <<sApplications, "Foo.app">> }
    /\ fnOut[1].found = Some(<<sApplications, "Foo.app">>)
    /\ fnOut[2].found = Some(<<sApplications, "foo.app">>)

----------------------------------------------------------------------------
\* The machine the two programs run on: Foo.app (bundle id c.foo) in the
\* system root, with a cache directory and a preferences file; Bar.app, with
\* no Info.plist and nothing left behind, in the user's root.

FooApp == <<sApplications, "Foo.app">>

BarApp == get_home \o <<sApplications, "Bar.app">>

FooInfoPlist == FooApp \o <<sContents, sInfoPlist>>

FooPrefs == get_home \o <<sLibrary, sPreferences, "c.foo.plist">>

\* a log file another process may write at any time
FooLog == get_home \o <<sLibrary, RelatedDirNames[4], "Foo.log">>

MachineDirs ==
    LibraryParents
      \cup { <<sApplications>>, get_home \o <<sApplications>> }
      \cup { RelatedSearchDirs[i] : i \in {2, 3, 4} }
      \cup { FooApp, FooApp \o <<sContents>>, BarApp }

MachineSizes == (FooInfoPlist :> 50) @@ (FooPrefs :> 4)

InitMachine ==
    /\ fsDirs = MachineDirs
    /\ fsFiles = DOMAIN MachineSizes
    /\ fsSize = MachineSizes @@ (FooLog :> 7)
    /\ fsNoStat = {}
    /\ fsNoRead = {}
    /\ fsFoldsCase = FALSE
    /\ plistIds = (FooApp :> "c.foo\n")

\* every directory the programs list
ListedDirs == AppSearchDirs \o RelatedSearchDirs

\* another process writes the log file
EnvWritesLog ==
    /\ mode \in {"cli", "gui"}
    /\ ~exists(FooLog)
    /\ fsFiles' = fsFiles \cup {FooLog}
    /\ UNCHANGED <<fsDirs, fsSize, fsNoStat, fsNoRead, fsFoldsCase, plistIds, runningApps>>
    /\ UNCHANGED <<fnVars, cliVars, guiVars, callVars>>

----------------------------------------------------------------------------
\* lib.rs: remove_path, quit_app, as the steps of a caller `by`

Call(by, op, arg, ok) == [by |-> by, op |-> op, arg |-> arg, ok |-> ok]

\* the results remove_path(p) may have: Err when p is gone, and Ok or Err
\* (permission denied) when it is there
RemoveOutcomes(p) == IF exists(p) THEN {TRUE, FALSE} ELSE {FALSE}

\* remove_dir_all / remove_file with result ok
remove_path(by, p, ok) ==
    /\ fsDirs' = IF ok THEN fsDirs \ Subtree(p) ELSE fsDirs
    /\ fsFiles' = IF ok THEN fsFiles \ Subtree(p) ELSE fsFiles
    /\ calls' = Append(calls, Call(by, "remove", p, ok))
    /\ UNCHANGED <<fsSize, fsNoStat, fsNoRead, fsFoldsCase, plistIds, runningApps>>

\* osascript "tell application ... to quit": the application may or may not quit
quit_app(by, app_name) ==
    /\ runningApps' \in {runningApps, runningApps \ {app_name}}
    /\ calls' = Append(calls, Call(by, "quit", <<app_name>>, TRUE))
    /\ UNCHANGED <<fsDirs, fsFiles, fsSize, fsNoStat, fsNoRead, fsFoldsCase, plistIds>>

----------------------------------------------------------------------------
\* main.rs: remove_app

CliArgs == { sFoo, "foo.app", "Nope" }

\* what the user may type at a prompt
Answers ==
    { "s\n", "Sim\n", " Y \n", "yes\n", "n\n", "\n" }

\* the test of both prompts
IsYes(input) ==
    to_lowercase(trim(Spell[input])) \in { Spell["s"], Spell["sim"], Spell["y"], Spell["yes"] }

Line(kind, arg) == <<kind, arg>>

RECURSIVE SumSizes(_)
SumSizes(paths) ==
    IF paths = <<>> THEN 0 ELSE shown_size(Head(paths)) + SumSizes(Tail(paths))

\* remove_app without the `return` of line 91: it reports the missing
\* application and goes on with a path made of the name
CliStartFallsThrough ==
    /\ mode = "cli" /\ cliPc = "start"
    /\ \E ord \in Listings(ListedDirs) :
         LET found == find_app(cliArg, ord)
             app_path == IF found = None THEN <<sApplications, app_filename(cliArg)>>
                         ELSE found[1]
             bundle_id == get_bundle_id(app_path)
             related == find_related_files(file_stem(app_path), bundle_id, ord)
         IN  /\ cliAppPath' = Some(app_path)
             /\ cliBundleId' = bundle_id
             /\ cliRelated' = related
             /\ cliOut' = (IF found = None
                             THEN <<Line("not_found", <<cliArg>>), Line("search_hint", <<cliArg>>)>>
                             ELSE <<>>)
                           \o <<Line("report", <<app_path>> \o related),
                                Line("ask_continue", <<>>)>>
             /\ cliPc' = "prompt"
    /\ UNCHANGED <<cliArg, cliIdx, cliErrors>>
    /\ UNCHANGED <<fsVars, fnVars, guiVars, callVars>>

\* lines 85-137: resolve the bundle, scan, print the report and the question
CliStart ==
    /\ mode = "cli" /\ cliPc = "start"
    /\ \E ord \in Listings(ListedDirs) :
         LET found == find_app(cliArg, ord)
         IN  IF found = None
               THEN /\ cliOut' = <<Line("not_found", <<cliArg>>), Line("search_hint", <<cliArg>>)>>
                    /\ cliPc' = "done"
                    /\ UNCHANGED <<cliAppPath, cliBundleId, cliRelated>>
               ELSE LET app_path == found[1]
                        bundle_id == get_bundle_id(app_path)
                        related == find_related_files(file_stem(app_path), bundle_id, ord)
                        app_size == unwrap_or(dir_size(app_path), 0)
                    IN  /\ cliAppPath' = found
                        /\ cliBundleId' = bundle_id
                        /\ cliRelated' = related
                        /\ cliOut' = <<Line("report", <<app_path>> \o related),
                                       Line("total", <<app_size + SumSizes(related)>>),
                                       Line("ask_continue", <<>>)>>
                        /\ cliPc' = "prompt"
    /\ UNCHANGED <<cliArg, cliIdx, cliErrors>>
    /\ UNCHANGED <<fsVars, fnVars, guiVars, callVars>>

\* lines 138-146: the answer to "Deseja continuar com a remocao?"
CliConfirm ==
    /\ mode = "cli" /\ cliPc = "prompt"
    /\ \E input \in Answers :
         IF IsYes(input)
           THEN /\ cliPc' = "check"
                /\ confirmed' = (0 :> Range(cliOut[1][2]))
                /\ UNCHANGED cliOut
           ELSE /\ cliPc' = "done"
                /\ cliOut' = Append(cliOut, Line("cancelled", <<>>))
                /\ UNCHANGED confirmed
    /\ UNCHANGED <<cliArg, cliAppPath, cliBundleId, cliRelated, cliIdx, cliErrors>>
    /\ UNCHANGED <<fsVars, fnVars, guiVars, calls, selectionAge>>

\* line 148: is_app_running, and the second question when it is
CliCheckRunning ==
    /\ mode = "cli" /\ cliPc = "check"
    /\ LET running == is_app_running(file_stem(cliAppPath[1]))
       IN  /\ calls' = Append(calls, Call(0, "pgrep", <<file_stem(cliAppPath[1])>>, running))
           /\ IF running
                THEN /\ cliPc' = "prompt2"
                     /\ cliOut' = Append(cliOut, Line("ask_close", <<>>))
                ELSE /\ cliPc' = "rm_bundle"
                     /\ UNCHANGED cliOut
    /\ UNCHANGED <<cliArg, cliAppPath, cliBundleId, cliRelated, cliIdx, cliErrors>>
    /\ UNCHANGED <<fsVars, fnVars, guiVars, confirmed, selectionAge>>

\* lines 151-162: the answer to "Deseja fecha-lo?": quit_app, or give up
CliCloseAnswer ==
    /\ mode = "cli" /\ cliPc = "prompt2"
    /\ \E input2 \in Answers :
         IF IsYes(input2)
           THEN /\ quit_app(0, file_stem(cliAppPath[1]))
                /\ cliPc' = "sleep"
                /\ UNCHANGED cliOut
           ELSE /\ cliPc' = "done"
                /\ cliOut' = Append(cliOut, Line("close_first", <<>>))
                /\ UNCHANGED <<fsVars, calls>>
    /\ UNCHANGED <<cliArg, cliAppPath, cliBundleId, cliRelated, cliIdx, cliErrors>>
    /\ UNCHANGED <<fnVars, guiVars, confirmed, selectionAge>>

\* remove_app without the delay of line 158
CliSleepSkipped ==
    /\ mode = "cli" /\ cliPc = "sleep"
    /\ cliPc' = "rm_bundle"
    /\ UNCHANGED <<cliArg, cliAppPath, cliBundleId, cliRelated, cliIdx, cliErrors, cliOut>>
    /\ UNCHANGED <<fsVars, fnVars, guiVars, callVars>>

\* line 158: thread::sleep(2 s)
CliSleep ==
    /\ mode = "cli" /\ cliPc = "sleep"
    /\ calls' = Append(calls, Call(0, "sleep", <<>>, TRUE))
    /\ cliPc' = "rm_bundle"
    /\ UNCHANGED <<cliArg, cliAppPath, cliBundleId, cliRelated, cliIdx, cliErrors, cliOut>>
    /\ UNCHANGED <<fsVars, fnVars, guiVars, confirmed, selectionAge>>

\* what one deletion prints and records
CliReport(p, ok) ==
    /\ cliOut' = cliOut \o <<Line("removing", p), Line(IF ok THEN "OK" ELSE "ERRO", p)>>
    /\ cliErrors' = IF ok THEN cliErrors ELSE Append(cliErrors, p)

\* lines 165-174: the bundle
CliRemoveBundle ==
    /\ mode = "cli" /\ cliPc = "rm_bundle"
    /\ \E ok \in RemoveOutcomes(cliAppPath[1]) :
         /\ remove_path(0, cliAppPath[1], ok)
         /\ CliReport(cliAppPath[1], ok)
    /\ cliPc' = "rm_related"
    /\ UNCHANGED <<cliArg, cliAppPath, cliBundleId, cliRelated, cliIdx>>
    /\ UNCHANGED <<fnVars, guiVars, confirmed, selectionAge>>

\* lines 176-186: the next residual path
CliRemoveRelated ==
    /\ mode = "cli" /\ cliPc = "rm_related"
    /\ cliIdx < Len(cliRelated)
    /\ \E ok \in RemoveOutcomes(cliRelated[cliIdx + 1]) :
         /\ remove_path(0, cliRelated[cliIdx + 1], ok)
         /\ CliReport(cliRelated[cliIdx + 1], ok)
    /\ cliIdx' = cliIdx + 1
    /\ UNCHANGED <<cliPc, cliArg, cliAppPath, cliBundleId, cliRelated>>
    /\ UNCHANGED <<fnVars, guiVars, confirmed, selectionAge>>

\* the lines of the summary, lines 188-198
CliSummaryLines(errors, stem, arg) ==
    IF errors = <<>> THEN <<Line("success", <<stem>>)>>
    ELSE <<Line("with_errors", <<stem>>)>>
           \o [ i \in DOMAIN errors |-> Line("error", errors[i]) ]
           \o <<Line("hint_admin", <<>>), Line("hint_sudo", <<arg>>)>>

CliSummary ==
    /\ mode = "cli" /\ cliPc = "rm_related"
    /\ cliIdx = Len(cliRelated)
    /\ cliOut' = cliOut \o CliSummaryLines(cliErrors, file_stem(cliAppPath[1]), cliArg)
    /\ cliPc' = "done"
    /\ UNCHANGED <<cliArg, cliAppPath, cliBundleId, cliRelated, cliIdx, cliErrors>>
    /\ UNCHANGED <<fsVars, fnVars, guiVars, callVars>>

CliNext ==
    \/ CliStart
    \/ CliConfirm
    \/ CliCheckRunning
    \/ CliCloseAnswer
    \/ CliSleep
    \/ CliRemoveBundle
    \/ CliRemoveRelated
    \/ CliSummary

InitCli ==
    /\ mode = "cli"
    /\ InitMachine
    /\ runningApps \in SUBSET {sFoo}
    /\ fnArgs = <<>> /\ fnOut = <<>>
    /\ cliPc = "start"
    /\ cliArg \in CliArgs
    /\ cliAppPath = None
    /\ cliBundleId = None
    /\ cliRelated = <<>>
    /\ cliIdx = 0
    /\ cliErrors = <<>>
    /\ cliOut = <<>>
    /\ GuiUnused /\ CallsNone

SpecCli == InitCli /\ [][CliNext \/ EnvWritesLog]_vars

----------------------------------------------------------------------------
\* gui.rs: struct App and App::update.  A frame is poll_log followed by the
\* handler of at most one input event, and is one step: no handler reads the
\* channel, and a worker step between the two halves of a frame leaves the
\* same state as that step before the frame with its message still unread.
\* poll_log takes all the channel holds when its last try_recv finds it
\* empty, which is the moment the step stands for.

\* the worker threads the machine runs at a time
MaxWorkers == 2

\* a place no thread has taken yet
NoWorker ==
    [ pc |-> "none", app_path |-> <<>>, app_name |-> "", related_paths |-> <<>>,
      idx |-> 0, sent |-> <<>> ]

\* what the user may type in the search bar
Queries == { "", "fo" }

LogLine(x) == <<"Line", x>>

LogDone == <<"Done", <<>>>>

\* the fields of App
AppNow ==
    [ apps             |-> apps,
      search_query     |-> search_query,
      selected_index   |-> selected_index,
      selected_details |-> selected_details,
      log_messages     |-> log_messages,
      log_rx           |-> log_rx,
      removing         |-> removing,
      show_confirm     |-> show_confirm ]

SetApp(a) ==
    /\ apps' = a.apps
    /\ search_query' = a.search_query
    /\ selected_index' = a.selected_index
    /\ selected_details' = a.selected_details
    /\ log_messages' = a.log_messages
    /\ log_rx' = a.log_rx
    /\ removing' = a.removing
    /\ show_confirm' = a.show_confirm

\* a reload that keeps the selection
reload_apps_keeps_selection(a, ord) ==
    [a EXCEPT !.apps = get_installed_app_infos(ord)]

\* App::reload_apps
reload_apps(a, ord) ==
    [a EXCEPT !.apps = get_installed_app_infos(ord),
              !.selected_index = None,
              !.selected_details = None]

\* poll_log that looks for the completion signal before it logs the lines
poll_log_done_first(a, msgs, ord) ==
    IF a.log_rx = None THEN a
    ELSE LET lines == SelectSeq(msgs, LAMBDA m : m[1] = "Line")
         IN  IF \E i \in DOMAIN msgs : msgs[i] = <<"Done", <<>>>>
               THEN reload_apps([a EXCEPT !.removing = FALSE, !.log_rx = None], ord)
               ELSE [a EXCEPT !.log_messages = @ \o [ i \in DOMAIN lines |-> lines[i][2] ]]

\* App::poll_log on the messages msgs of the channel
poll_log(a, msgs, ord) ==
    IF a.log_rx = None THEN a
    ELSE LET lines == SelectSeq(msgs, LAMBDA m : m[1] = "Line")
             done == \E i \in DOMAIN msgs : msgs[i] = LogDone
             logged == [a EXCEPT !.log_messages = @ \o [ i \in DOMAIN lines |-> lines[i][2] ]]
         IN  IF done
               THEN reload_apps([logged EXCEPT !.removing = FALSE, !.log_rx = None], ord)
               ELSE logged

\* App::filtered_apps
filtered_apps(a) ==
    IF a.search_query = "" THEN [ i \in DOMAIN a.apps |-> i ]
    ELSE SelectSeq([ i \in DOMAIN a.apps |-> i ],
                   LAMBDA i : contains(to_lowercase(Spell[a.apps[i].name]),
                                       to_lowercase(Spell[a.search_query])))

\* App::select_app: the details of apps[global_index]
select_app(a, global_index, ord) ==
    LET app == a.apps[global_index]
        related_paths == find_related_files(app.name, app.bundle_id, ord)
        related == [ i \in DOMAIN related_paths |->
                       [ path |-> related_paths[i], size |-> shown_size(related_paths[i]) ] ]
    IN  [a EXCEPT !.selected_details =
            Some([ name       |-> app.name,
                   path       |-> app.path,
                   size       |-> app.size,
                   bundle_id  |-> app.bundle_id,
                   related    |-> related,
                   total_size |-> app.size + SumSizes(related_paths) ])]

\* App::start_removal, lines 128-130: what the worker thread is given
\* (rescanning instead of copying the residual list of the details)
RemovalInputsRescanned(details, ord) ==
    [ app_path      |-> details.path,
      app_name      |-> details.name,
      related_paths |-> find_related_files(details.name, details.bundle_id, ord) ]

RemovalInputs(details, ord) ==
    [ app_path      |-> details.path,
      app_name      |-> details.name,
      related_paths |-> [ i \in DOMAIN details.related |-> details.related[i].path ] ]

\* a start_removal that takes the receiver and leaves `removing` as it is
start_removal_flag_unset(a, w) ==
    [a EXCEPT !.log_rx = Some(w),
              !.log_messages = <<>>,
              !.show_confirm = FALSE]

\* App::start_removal, lines 132-136: the fields it sets; w is the new worker
start_removal(a, w) ==
    [a EXCEPT !.log_rx = Some(w),
              !.removing = TRUE,
              !.log_messages = <<>>,
              !.show_confirm = FALSE]

\* the paths the details panel shows
DisplayedPaths(details) ==
    {details.path} \cup { details.related[i].path : i \in DOMAIN details.related }

\* a worker thread is running
Active(w) == workers[w].pc \notin {"none", "exited"}

\* the places a new thread may take: of no thread, or of one that has ended
FreeWorkers == { w \in DOMAIN workers : ~Active(w) }

\* lines 219-224: the start of every frame
Polled ==
    IF log_rx # None /\ \E i \in DOMAIN chan : chan[i] = LogDone
      THEN { poll_log(AppNow, chan, ord) : ord \in Listings(ListedDirs) }
      ELSE { poll_log(AppNow, chan, <<>>) }

\* what the details on display are after a frame: none; computed by this
\* frame's select_app, while a removal runs or not; those a removal has just
\* been started from; or those of before
AgeAfter(event) ==
    IF selected_details' = None THEN "none"
    ELSE IF event = "select" THEN (IF removing' THEN "stale" ELSE "fresh")
    ELSE IF event = "start" THEN "stale"
    ELSE selectionAge

FrameRest(event) ==
    /\ chan' = <<>>
    /\ selectionAge' = AgeAfter(event)
    /\ UNCHANGED <<workers, fsVars, fnVars, cliVars, calls, confirmed>>

\* a frame without input
NoEvent ==
    /\ mode = "gui"
    /\ \E a \in Polled : SetApp(a)
    /\ FrameRest("other")

\* lines 236-239: the search text changed
SearchEdit ==
    /\ mode = "gui"
    /\ \E a \in Polled : \E q \in Queries \ {a.search_query} :
          SetApp([a EXCEPT !.search_query = q,
                           !.selected_index = None,
                           !.selected_details = None])
    /\ FrameRest("other")

\* lines 240-242: "Recarregar"
Reload ==
    /\ mode = "gui"
    /\ \E a \in Polled : \E ord \in Listings(ListedDirs) : SetApp(reload_apps(a, ord))
    /\ FrameRest("other")

\* a remove button that is always enabled
can_remove_always(a) == TRUE

\* the remove button is shown with details and enabled when no removal runs
can_remove(a) == ~a.removing

\* lines 344-357: "Remover aplicativo"
ClickRemove ==
    /\ mode = "gui"
    /\ \E a \in Polled :
         /\ a.selected_details # None
         /\ can_remove(a)
         /\ SetApp([a EXCEPT !.show_confirm = TRUE])
    /\ FrameRest("other")

\* lines 394-396: "Cancelar"
Cancel ==
    /\ mode = "gui"
    /\ \E a \in Polled :
         /\ a.show_confirm
         /\ SetApp([a EXCEPT !.show_confirm = FALSE])
    /\ FrameRest("other")

\* lines 397-402 and 122-137: "Confirmar", App::start_removal
Confirm ==
    /\ mode = "gui"
    /\ \E a \in Polled :
         /\ a.show_confirm
         /\ IF a.selected_details = None
              THEN /\ SetApp(a)
                   /\ UNCHANGED <<workers, confirmed, calls>>
                   /\ selectionAge' = AgeAfter("other")
              ELSE /\ FreeWorkers # {}
                   /\ LET w == CHOOSE f \in FreeWorkers : \A g \in FreeWorkers : f <= g
                      IN  /\ \E ord \in Listings(ListedDirs) :
                               LET given == RemovalInputs(a.selected_details[1], ord)
                               IN  workers' = [workers EXCEPT ![w] =
                                                [ pc            |-> "check",
                                                  app_path      |-> given.app_path,
                                                  app_name      |-> given.app_name,
                                                  related_paths |-> given.related_paths,
                                                  idx           |-> 0,
                                                  sent          |-> <<>> ]]
                          /\ SetApp(start_removal(a, w))
                          /\ confirmed' = (w :> DisplayedPaths(a.selected_details[1]))
                                             @@ confirmed
                          /\ calls' = SelectSeq(calls, LAMBDA c : c.by # w)
                          /\ selectionAge' = AgeAfter("start")
    /\ chan' = <<>>
    /\ UNCHANGED <<fsVars, fnVars, cliVars>>

\* lines 429-432: a click on an entry of the list
SelectApp ==
    /\ mode = "gui"
    /\ \E a \in Polled :
       \E list_pos \in DOMAIN filtered_apps(a) :
       \E ord \in Listings(ListedDirs) :
          SetApp(select_app([a EXCEPT !.selected_index = Some(list_pos)],
                            filtered_apps(a)[list_pos], ord))
    /\ FrameRest("select")

----------------------------------------------------------------------------
\* gui.rs: the worker thread of start_removal, lines 138-190

\* a worker that deletes the bundle after the residual paths
WorkerPathsBundleLast(w) == workers[w].related_paths \o <<workers[w].app_path>>

\* the paths worker w deletes, in order: the bundle, then the residual paths
WorkerPaths(w) == <<workers[w].app_path>> \o workers[w].related_paths

\* a worker thread that ends at the first deletion that fails
AfterRemoveDiesOnError(w, ok) ==
    IF ~ok THEN "exited"
    ELSE IF workers[w].idx + 1 < Len(WorkerPaths(w)) THEN "announce" ELSE "final"

\* where the worker goes after a deletion with result ok: to the next path
\* while there is one, whatever the result (the matches of lines 153-167 and
\* 172-182 have no break and no return)
AfterRemove(w, ok) ==
    IF workers[w].idx + 1 < Len(WorkerPaths(w)) THEN "announce" ELSE "final"

\* tx.send(msg): the message is queued while the receiver of this worker's
\* channel is alive, and dropped (`let _ =`) once it is gone
Send(w, msg, next) ==
    /\ chan' = IF log_rx = Some(w) THEN Append(chan, msg) ELSE chan
    /\ workers' = [workers EXCEPT ![w].sent = Append(@, msg), ![w].pc = next]

\* lines 140-144: is_app_running, and the line that says so
WorkerCheck(w) ==
    /\ workers[w].pc = "check"
    /\ LET running == is_app_running(workers[w].app_name)
       IN  /\ calls' = Append(calls, Call(w, "pgrep", <<workers[w].app_name>>, running))
           /\ IF running
                THEN Send(w, LogLine(Line("running", <<workers[w].app_name>>)), "quit")
                ELSE /\ workers' = [workers EXCEPT ![w].pc = "announce"]
                     /\ UNCHANGED chan
    /\ UNCHANGED <<appVars, fsVars, fnVars, cliVars, confirmed, selectionAge>>

\* lines 145-146: quit_app, then thread::sleep(2 s)
WorkerQuit(w) ==
    /\ workers[w].pc = "quit"
    /\ runningApps' \in {runningApps, runningApps \ {workers[w].app_name}}
    /\ calls' = calls \o <<Call(w, "quit", <<workers[w].app_name>>, TRUE),
                           Call(w, "sleep", <<>>, TRUE)>>
    /\ workers' = [workers EXCEPT ![w].pc = "announce"]
    /\ UNCHANGED <<fsDirs, fsFiles, fsSize, fsNoStat, fsNoRead, fsFoldsCase, plistIds>>
    /\ UNCHANGED <<appVars, chan, fnVars, cliVars, confirmed, selectionAge>>

\* lines 149-152 and 170: "Removendo <path>..."
WorkerAnnounce(w) ==
    /\ workers[w].pc = "announce"
    /\ Send(w, LogLine(Line("removing", WorkerPaths(w)[workers[w].idx + 1])), "remove")
    /\ UNCHANGED <<appVars, fsVars, fnVars, cliVars, callVars>>

\* lines 153-167 and 171-182: remove_path and the line of its result,
\* "<path> - OK" or "<path> - ERRO: ...", then on to the next path or out of
\* the loop
WorkerRemove(w) ==
    /\ workers[w].pc = "remove"
    /\ LET p == WorkerPaths(w)[workers[w].idx + 1]
       IN  \E ok \in RemoveOutcomes(p) :
             /\ remove_path(w, p, ok)
             /\ LET msg == LogLine(Line(IF ok THEN "ok" ELSE "err", p))
                IN  /\ chan' = IF log_rx = Some(w) THEN Append(chan, msg) ELSE chan
                    /\ workers' = [workers EXCEPT ![w].sent = Append(@, msg),
                                                  ![w].pc = AfterRemove(w, ok),
                                                  ![w].idx = @ + 1]
    /\ UNCHANGED <<appVars, fnVars, cliVars, confirmed, selectionAge>>

\* the last line of the log, lines 185-188
WorkerFinalLine(w) == Line("success", <<workers[w].app_name>>)

WorkerFinal(w) ==
    /\ workers[w].pc = "final"
    /\ Send(w, LogLine(WorkerFinalLine(w)), "finish")
    /\ UNCHANGED <<appVars, fsVars, fnVars, cliVars, callVars>>

\* line 189: LogMsg::Done, and the thread ends
WorkerDone(w) ==
    /\ workers[w].pc = "finish"
    /\ Send(w, LogDone, "exited")
    /\ UNCHANGED <<appVars, fsVars, fnVars, cliVars, callVars>>

WorkerStep(w) ==
    \/ WorkerCheck(w)
    \/ WorkerQuit(w)
    \/ WorkerAnnounce(w)
    \/ WorkerRemove(w)
    \/ WorkerFinal(w)
    \/ WorkerDone(w)

WorkerNext == mode = "gui" /\ \E w \in DOMAIN workers : WorkerStep(w)

FrameNext ==
    \/ NoEvent
    \/ SearchEdit
    \/ Reload
    \/ ClickRemove
    \/ Cancel
    \/ Confirm
    \/ SelectApp

\* App::new
InitGui ==
    /\ mode = "gui"
    /\ InitMachine
    /\ runningApps = {sFoo}
    /\ fnArgs = <<>> /\ fnOut = <<>>
    /\ CliUnused
    /\ \E ord \in Listings(ListedDirs) : apps = get_installed_app_infos(ord)
    /\ search_query = ""
    /\ selected_index = None
    /\ selected_details = None
    /\ log_messages = <<>>
    /\ log_rx = None
    /\ removing = FALSE
    /\ show_confirm = FALSE
    /\ chan = <<>>
    /\ workers = [ w \in 1..MaxWorkers |-> NoWorker ]
    /\ CallsNone

GuiNext == FrameNext \/ WorkerNext \/ EnvWritesLog

SpecGui == InitGui /\ [][GuiNext]_vars

\* update asks for a repaint while removing is true (lines 221-223), so
\* frames keep coming: what a frame has to read is read in the end, if not
\* by a frame with an event then by one without; and the scheduler runs a
\* thread that is ready
SpecGuiLive ==
    /\ InitGui
    /\ [][GuiNext]_vars
    /\ WF_vars(NoEvent)
    /\ WF_vars(WorkerNext)

----------------------------------------------------------------------------
\* The removal operations, as the log of calls shows them: operation 0 is
\* remove_app of the command line, operation w is worker thread w.

CallsOf(by) == SelectSeq(calls, LAMBDA c : c.by = by)

Removes(by) == SelectSeq(calls, LAMBDA c : c.by = by /\ c.op = "remove")

OpNames(by) == [ i \in DOMAIN CallsOf(by) |-> CallsOf(by)[i].op ]

\* the operations that have resolved what to delete
Started ==
    IF mode = "cli" THEN (IF cliAppPath # None THEN {0} ELSE {})
    ELSE IF mode = "gui" THEN { w \in DOMAIN workers : workers[w].pc # "none" }
    ELSE {}

\* what operation `by` was given to delete: the bundle, then the residual list
Planned(by) ==
    IF by = 0 THEN <<cliAppPath[1]>> \o cliRelated
    ELSE <<workers[by].app_path>> \o workers[by].related_paths

Ended(by) == IF by = 0 THEN cliPc = "done" ELSE workers[by].pc = "exited"

\* the lines operation `by` has written
Written(by) ==
    IF by = 0 THEN cliOut
    ELSE LET lines == SelectSeq(workers[by].sent, LAMBDA m : m[1] = "Line")
         IN  [ i \in DOMAIN lines |-> lines[i][2] ]

OutcomeKinds == {"OK", "ERRO", "ok", "err"}

OutcomeLines(by) == SelectSeq(Written(by), LAMBDA l : l[1] \in OutcomeKinds)

\* the line of one deletion
OutcomeOf(by, c) ==
    IF by = 0 THEN Line(IF c.ok THEN "OK" ELSE "ERRO", c.arg)
    ELSE Line(IF c.ok THEN "ok" ELSE "err", c.arg)

SomeDeletionFailed(by) == \E i \in DOMAIN Removes(by) : ~Removes(by)[i].ok

AllRemoves(by) == [ i \in DOMAIN Planned(by) |-> "remove" ]

\* C1: in every removal operation (the command and the worker) the deletions
\* attempted so far are the bundle and then the residual paths in the order
\* given, each with exactly one OK/ERROR line, in the order of the attempts;
\* and an operation that deleted anything has attempted every path when it
\* ends, whichever deletions failed.
C1_BundleThenResidualsAllAttempted ==
    \A by \in Started :
      LET r == Removes(by)
          p == Planned(by)
          o == OutcomeLines(by)
      IN  /\ Len(r) <= Len(p)
          /\ \A i \in DOMAIN r : r[i].arg = p[i]
          /\ Len(o) = Len(r)
          /\ \A i \in DOMAIN r : o[i] = OutcomeOf(by, r[i])
          /\ (Ended(by) /\ (by # 0 \/ r # <<>>)) => Len(r) = Len(p)

\* a worker has ended after the deletion of the bundle failed and the
\* deletions of two residual paths were attempted, one of them with success
C1_Witness ==
    /\ mode = "gui"
    /\ \E w \in DOMAIN workers :
         /\ workers[w].pc = "exited"
         /\ Len(Removes(w)) >= 3
         /\ ~Removes(w)[1].ok
         /\ Removes(w)[3].ok

\* the last line an ended operation wrote
FinalLine(by) == Written(by)[Len(Written(by))]

\* C2: whenever a deletion failed in a removal operation, the final report
\* of the operation signals the failure and carries the hint about elevated
\* privileges; plain success is the final report only when every deletion
\* succeeded.
C2_FailureIsReported ==
    \A by \in Started :
      (Ended(by) /\ Removes(by) # <<>>) =>
        /\ SomeDeletionFailed(by) =>
             /\ \E i \in DOMAIN Written(by) : Written(by)[i][1] = "with_errors"
             /\ \E i \in DOMAIN Written(by) : Written(by)[i][1] \in {"hint_admin", "hint_sudo"}
        /\ FinalLine(by)[1] = "success" => ~SomeDeletionFailed(by)

\* the same, of the command alone
C2_CliFailureIsReported == mode = "cli" => C2_FailureIsReported

\* C3: at most one removal worker is in flight: a running worker is the one
\* whose lines the foreground receives, removing is true while it runs, and
\* the confirm dialog, from which alone start_removal is entered, is never
\* open while removing is true.
C3_AtMostOneRemovalInFlight ==
    /\ Cardinality({ w \in DOMAIN workers : Active(w) }) <= 1
    /\ \A w \in DOMAIN workers : Active(w) => removing /\ log_rx = Some(w)
    /\ removing => ~show_confirm

\* the user selected an application while a worker was deleting
C3_Witness ==
    /\ removing
    /\ selected_details # None
    /\ \E w \in DOMAIN workers : workers[w].pc = "remove"

\* is_app_running answered yes to operation `by`
DetectedRunning(by) ==
    /\ CallsOf(by) # <<>>
    /\ CallsOf(by)[1].op = "pgrep"
    /\ CallsOf(by)[1].ok

\* the command's second question was answered with no
Declined == mode = "cli" /\ \E i \in DOMAIN cliOut : cliOut[i][1] = "close_first"

\* the calls of an operation that found the application running and went on
RunningProceeds(by) == <<"pgrep", "quit", "sleep">> \o AllRemoves(by)

\* C4 (as stated): every removal operation that detects the application
\* running issues the quit request, waits, and attempts the deletions; it
\* never ends without them.
C4_RunningNeverEndsRemoval ==
    \A by \in Started :
      (DetectedRunning(by) /\ Ended(by)) => OpNames(by) = RunningProceeds(by)

\* C4 (amended): an operation that detects the application running makes
\* its calls in the order quit request, delay, deletions; the worker always
\* goes through all of them, and so does the command when its second
\* question is answered yes, whether or not the application has quit; when
\* that question is answered no the command ends with no quit request and no
\* deletion.
C4_RunningProceedsUnlessDeclined ==
    \A by \in Started :
      DetectedRunning(by) =>
        /\ IsPrefix(OpNames(by), RunningProceeds(by))
        /\ Ended(by) =>
             IF by = 0 /\ Declined
               THEN OpNames(by) = <<"pgrep">>
               ELSE OpNames(by) = RunningProceeds(by)

\* an operation went through the deletions although the application it asked
\* to quit is still running
C4_Witness ==
    \E by \in Started :
      /\ DetectedRunning(by)
      /\ Ended(by)
      /\ OpNames(by) = RunningProceeds(by)
      /\ CallsOf(by)[1].arg[1] \in runningApps

\* C5: every path passed to remove_path belongs to the path set that was on
\* display (the bundle and the residual list) when the user confirmed the
\* removal that deletes it; nothing found by a later scan is deleted.
C5_OnlyConfirmedPathsRemoved ==
    \A i \in DOMAIN calls :
      calls[i].op = "remove" =>
        /\ calls[i].by \in DOMAIN confirmed
        /\ calls[i].arg \in confirmed[calls[i].by]

\* a worker has ended and left alone a matching file that appeared after the
\* details were computed
C5_Witness ==
    /\ mode = "gui"
    /\ exists(FooLog)
    /\ \E w \in DOMAIN workers :
         /\ workers[w].pc = "exited"
         /\ workers[w].app_name = sFoo
         /\ w \in DOMAIN confirmed
         /\ FooLog \notin confirmed[w]
         /\ \A i \in DOMAIN Removes(w) : Removes(w)[i].ok

\* log lines as messages of the channel
AsLines(log) == [ i \in DOMAIN log |-> LogLine(log[i]) ]

\* the foreground has logged or still to read exactly what the worker sent,
\* in order, and Done is the last message of a worker and of no other place
LogFollowsWorker ==
    \A w \in DOMAIN workers :
      LET sent == workers[w].sent
      IN  /\ log_rx = Some(w) => AsLines(log_messages) \o chan = sent
          /\ \A i \in DOMAIN sent : sent[i] = LogDone => i = Len(sent)
          /\ workers[w].pc = "exited" <=> (sent # <<>> /\ sent[Len(sent)] = LogDone)

\* the step that clears removing leaves every line of the worker in the log
ClearedWithAllLines ==
    (removing /\ ~removing') =>
      \E w \in DOMAIN workers :
        /\ log_rx = Some(w)
        /\ log_rx' = None
        /\ AsLines(log_messages') \o <<LogDone>> = workers[w].sent

\* C6: whatever the interleaving of the worker's sends and the frames, the
\* log and the unread messages together are the worker's messages in the
\* order sent, none lost or twice; the completion signal is the last message
\* sent; and when removing is cleared all lines sent are in log_messages.
C6_LogIsWhatWasSent == []LogFollowsWorker /\ [][ClearedWithAllLines]_vars

\* a frame has read some lines while others of the same worker wait unread
C6_Witness ==
    /\ removing
    /\ log_messages # <<>>
    /\ Len(chan) >= 2
    /\ \A i \in DOMAIN chan : chan[i] # LogDone

\* no step but its own changes a running worker, whose deletions go on
WorkerUndisturbed ==
    \A w \in DOMAIN workers :
      Active(w) =>
        /\ workers'[w].pc # "none"
        /\ workers'[w].app_path = workers[w].app_path
        /\ workers'[w].related_paths = workers[w].related_paths
        /\ workers'[w].idx >= workers[w].idx
        /\ IsPrefix(workers[w].sent, workers'[w].sent)

\* every worker there was has attempted all its paths, sent the completion
\* signal and ended
RemovalsComplete ==
    \A w \in DOMAIN workers :
      workers[w].pc # "none" =>
        /\ workers[w].pc = "exited"
        /\ Len(Removes(w)) = Len(Planned(w))
        /\ workers[w].sent[Len(workers[w].sent)] = LogDone

\* C7: a removal that has begun is not cancelled and runs to completion: no
\* event takes anything back from the worker, the worker eventually has
\* attempted every path and sent the completion signal, and removing
\* eventually is false again, whatever deletions failed.
C7_RemovalRunsToCompletion ==
    /\ [][WorkerUndisturbed]_vars
    /\ removing ~> (~removing /\ RemovalsComplete)

\* a removal with a failed deletion is over and the button is enabled again
C7_Witness ==
    /\ mode = "gui"
    /\ ~removing
    /\ log_rx = None
    /\ \E w \in DOMAIN workers : workers[w].pc = "exited" /\ SomeDeletionFailed(w)

NotFoundReported == \E i \in DOMAIN cliOut : cliOut[i][1] = "not_found"

\* C8: when find_app finds no bundle, remove_app reports it and ends at
\* once: no call is made (no quit request, no deletion) and every directory
\* and file of the machine is still there.
C8_NotFoundChangesNothing ==
    mode = "cli" =>
      /\ cliPc # "start" => (NotFoundReported <=> cliAppPath = None)
      /\ NotFoundReported =>
           /\ cliPc = "done"
           /\ calls = <<>>
           /\ fsDirs = MachineDirs
           /\ fsFiles \ {FooLog} = DOMAIN MachineSizes

\* the command has ended on a name that no bundle has
C8_Witness ==
    /\ mode = "cli"
    /\ cliPc = "done"
    /\ cliArg = "Nope"
    /\ NotFoundReported

----------------------------------------------------------------------------
----------------------------------------------------------------------------
\* the frame reads the completion signal of the removal in progress
CompletionObserved ==
    /\ mode = "gui"
    /\ log_rx # None
    /\ \E i \in DOMAIN chan : chan[i] = LogDone

\* the step starts a worker thread
StartsRemoval ==
    \E w \in DOMAIN workers : workers'[w].pc = "check" /\ workers[w].pc # "check"

\* poll_log, reading the completion signal, leaves the list reloaded, no
\* entry selected, no details and no removal in progress
PollClearsOnDone ==
    CompletionObserved =>
        \A ord \in Listings(ListedDirs) :
            LET a == poll_log(AppNow, chan, ord)
            IN  /\ a.apps = get_installed_app_infos(ord)
                /\ a.selected_index = None
                /\ a.selected_details = None
                /\ ~a.removing

DialogClosedWhileRemoving == removing => ~show_confirm

StartedFromFresh == StartsRemoval => (selectionAge = "fresh" /\ ~removing)

\* C14: in the GUI every removal is started from details that were computed
\* while no removal ran and after which none has started: reading the
\* completion signal reloads the list and clears selected_index and
\* selected_details in the same step, the confirm dialog is never open while
\* a removal runs, and so no removal starts from details captured before or
\* during an earlier one.
C14_RemovalStartsFromFreshDetails ==
    [](PollClearsOnDone /\ DialogClosedWhileRemoving) /\ [][StartedFromFresh]_vars

\* a removal of Bar.app has just been started after Foo.app was removed
C14_Witness ==
    /\ mode = "gui"
    /\ removing
    /\ selectionAge = "stale"
    /\ FooApp \notin fsDirs
    /\ \E w \in DOMAIN workers :
          workers[w].pc = "check" /\ workers[w].app_path = BarApp

RemovingIffReceiver == mode = "gui" => (removing <=> log_rx # None)

OnlyStartAndCompletionChangeThem ==
    (removing' # removing \/ log_rx' # log_rx)
        => \/ StartsRemoval /\ removing' /\ log_rx' # None
           \/ CompletionObserved /\ ~removing' /\ log_rx' = None

\* C15: in every state of the GUI, removing is true exactly when log_rx is
\* Some; the two change only together, set when a removal starts and
\* cleared when the completion signal is read.
C15_RemovingIffReceiver ==
    []RemovingIffReceiver /\ [][OnlyStartAndCompletionChangeThem]_vars

\* a removal has started and ended: both were set, both are cleared
C15_Witness ==
    /\ mode = "gui"
    /\ ~removing
    /\ log_rx = None
    /\ \E w \in DOMAIN workers : workers[w].pc = "exited"

\* either program, on the same machine
Init == InitCli \/ InitGui

Next == CliNext \/ FrameNext \/ WorkerNext \/ EnvWritesLog

Spec == Init /\ [][Next]_vars

====
